---- MODULE Spec2Model ----
(***************************************************************************)
(* State-machine model of the jsPsych cloze plugin                         *)
(* (packages/plugin-cloze/src/index.ts).                                   *)
(*                                                                         *)
(* A string is a sequence of one-character strings, so that split, trim    *)
(* and toLowerCase are computed character by character as the JavaScript   *)
(* string methods compute them.                                            *)
(***************************************************************************)
EXTENDS Integers, Sequences, FiniteSets, TLC

\* ---------------------------------------------------------------- bounds
\* longest template text
MaxTextLen == 4
\* longest value a participant types into one field
MaxValueLen == 1
\* number of clicks on the finish button that are explored
MaxSubmits == 2
\* largest latency sample of the simulation
MaxLatency == 1

\* characters of a template: a letter, white space, the alternatives
\* separator and the blank marker
TextChars == {"A", " ", "/", "%"}
\* characters of the short strings a participant types (the accepted
\* alternatives in any casing can be typed as well, see Typable)
TypedChars == {"A", " "}
\* words of the host's word-generation service (non-empty, lower case)
RandomWordList == {<<"a">>, <<"a", "a">>}

RECURSIVE StringsUpTo(_, _)
StringsUpTo(chars, n) ==
  IF n = 0 THEN {<<>>}
  ELSE LET S == StringsUpTo(chars, n - 1)
       IN  S \cup {Append(s, c) : s \in {t \in S : Len(t) = n - 1}, c \in chars}

Templates == StringsUpTo(TextChars, MaxTextLen)
TypedValues == StringsUpTo(TypedChars, MaxValueLen)

\* ------------------------------------------------- JavaScript primitives
\* String.prototype.toLowerCase, one character
LowerChar(c) == IF c = "A" THEN "a" ELSE c

toLowerCase(s) == [i \in 1..Len(s) |-> LowerChar(s[i])]

IsSpace(c) == c = " "

\* String.prototype.trim: drops white space at both ends, keeps it inside
trim(s) ==
  LET nonSpace == {i \in 1..Len(s) : ~IsSpace(s[i])}
  IN  IF nonSpace = {} THEN <<>>
      ELSE LET first == CHOOSE i \in nonSpace : \A j \in nonSpace : i <= j
               last  == CHOOSE i \in nonSpace : \A j \in nonSpace : j <= i
           IN  SubSeq(s, first, last)

\* String.prototype.split with a one-character separator: the pieces
\* between the separators, empty pieces included; "" splits into [""]
split(s, sep) ==
  LET pos   == {i \in 1..Len(s) : s[i] = sep}
      n     == Cardinality(pos)
      \* position of the k-th separator, 0 for k = 0, Len(s)+1 for k = n+1
      at(k) == IF k = 0 THEN 0
               ELSE IF k = n + 1 THEN Len(s) + 1
               ELSE CHOOSE i \in pos : Cardinality({j \in pos : j <= i}) = k
  IN  [k \in 1..(n + 1) |-> SubSeq(s, at(k - 1) + 1, at(k) - 1)]

\* mutant of includes: only the first element is compared
includes_first(list, x) == Len(list) > 0 /\ list[1] = x

\* Array.prototype.includes on an array of strings (strict equality)
includes(list, x) == \E i \in 1..Len(list) : list[i] = x

\* mutant of getSolutions: the loop stops before the last element, a blank
\* opened by an unmatched marker gets no list
getSolutions_dropUnmatched(text, case_sensitive) ==
  LET elements == split(text, "%")
  IN  [k \in 1..((Len(elements) - 1) \div 2) |->
         IF case_sensitive
         THEN split(trim(elements[2 * k]), "/")
         ELSE split(trim(toLowerCase(elements[2 * k])), "/")]

\* mutant of getSolutions: the content of a blank is split without being
\* trimmed
getSolutions_noTrim(text, case_sensitive) ==
  LET elements == split(text, "%")
  IN  [k \in 1..(Len(elements) \div 2) |->
         IF case_sensitive
         THEN split(elements[2 * k], "/")
         ELSE split(toLowerCase(elements[2 * k]), "/")]

\* ------------------------------------------------------- template parser
\* mutant of getSolutions: the loop starts at element 0, the lists are made
\* of the elements at even positions
getSolutions_fromZero(text, case_sensitive) ==
  LET elements == split(text, "%")
  IN  [k \in 1..((Len(elements) + 1) \div 2) |->
         IF case_sensitive
         THEN split(trim(elements[2 * k - 1]), "/")
         ELSE split(trim(toLowerCase(elements[2 * k - 1])), "/")]

\* getSolutions: one list of alternatives per odd element of text.split("%")
getSolutions(text, case_sensitive) ==
  LET elements == split(text, "%")
  IN  [k \in 1..(Len(elements) \div 2) |->
         IF case_sensitive
         THEN split(trim(elements[2 * k]), "/")
         ELSE split(trim(toLowerCase(elements[2 * k])), "/")]

\* ------------------------------------------------------------------ state
VARIABLES
  trial,            \* the trial's parameters (TrialType<Info>), fixed per trial
  simulation_mode,  \* "none" until the host starts the trial, then "manual",
                    \* "data-only" or "visual"
  pc,               \* "start", "running" (surface shown, trial open), "finished"
  display,          \* display_element's children, in document order
  solutions,        \* the const solutions of trial(), captured by check()
  value,            \* value[i+1]: current content of <input id="input i">
  color,            \* color[i+1]: style.color of <input id="input i">
  focus,            \* 0-based index of the focused input, -1 if none
  exception,        \* "none", or the error thrown out of trial()
  clicks,           \* click events dispatched to the finish button
  calls,            \* host callbacks invoked so far, in order
  trial_data,       \* payloads handed to jsPsych.finishTrial, in order
  timers            \* pending setTimeout callbacks, in scheduling order

vars == <<trial, simulation_mode, pc, display, solutions, value, color, focus,
          exception, clicks, calls, trial_data, timers>>

ButtonTexts == {"OK", "Next"}
\* default of the parameter button_text
DefaultButtonText == "OK"

TrialType ==
  [text : Templates, button_text : ButtonTexts, check_answers : BOOLEAN,
   allow_blanks : BOOLEAN, case_sensitivity : BOOLEAN, autofocus : BOOLEAN]

\* before the host starts the trial; the parameters are any template and
\* any flags, with the default button text
Init ==
  /\ trial \in TrialType
  /\ trial.button_text = DefaultButtonText
  /\ simulation_mode = "none"
  /\ pc = "start"
  /\ display = <<>>
  /\ solutions = <<>>
  /\ value = <<>>
  /\ color = <<>>
  /\ focus = -1
  /\ exception = "none"
  /\ clicks = 0
  /\ calls = <<>>
  /\ trial_data = <<>>
  /\ timers = <<>>

\* number of entries of a call log that are the callback f
Count(log, f) == Cardinality({i \in 1..Len(log) : log[i] = f})

\* --------------------------------------------------------- trial(): render
Node(tag, text, id) == [tag |-> tag, text |-> text, id |-> id]

\* mutant of RenderElements: solution_counter is never incremented, every
\* input is #input0
RenderElements_noIncrement(text) ==
  LET elements == split(text, "%")
  IN  [i \in 1..Len(elements) |->
         IF (i - 1) % 2 = 0
         THEN Node("text", elements[i], -1)
         ELSE Node("input", <<>>, 0)]

\* the loop of trial() over text.split("%"): elements at even 0-based
\* positions are copied, those at odd positions become <input id="inputN">
\* with N = solution_counter
RenderElements(text) ==
  LET elements == split(text, "%")
  IN  [i \in 1..Len(elements) |->
         IF (i - 1) % 2 = 0
         THEN Node("text", elements[i], -1)
         ELSE Node("input", <<>>, (i \div 2) - 1)]

\* display_element.innerHTML after trial(): the cloze, <br>, the button
RenderHTML(t) ==
  RenderElements(t.text) \o <<Node("br", <<>>, -1), Node("button", t.button_text, -1)>>

\* ids of the text inputs present in a surface
InputIds(html) == {html[i].id : i \in {j \in 1..Len(html) : html[j].tag = "input"}}

HasButton(html) == \E i \in 1..Len(html) : html[i].tag = "button"

\* the body of trial(display_element, trial): render, attach the click
\* listener, then focus #input0 when autofocus is set; querySelector yields
\* null when there is no #input0 and the call of focus() on it throws
TrialBody ==
  LET html == RenderHTML(trial)
      n    == Cardinality(InputIds(html))
  IN  /\ display' = html
      /\ solutions' = getSolutions(trial.text, trial.case_sensitivity)
      /\ value' = [i \in 1..n |-> <<>>]
      /\ color' = [i \in 1..n |-> ""]
      /\ IF trial.autofocus
         THEN IF 0 \in InputIds(html)
              THEN focus' = 0 /\ exception' = "none"
              ELSE focus' = -1 /\ exception' = "TypeError"
         ELSE focus' = -1 /\ exception' = "none"

\* the host runs the trial with a participant
Trial ==
  /\ pc = "start"
  /\ simulation_mode' = "manual"
  /\ pc' = "running"
  /\ TrialBody
  /\ calls' = Append(calls, "trial")
  /\ UNCHANGED <<trial, clicks, trial_data, timers>>

\* the characters that differ from c at most in case
CaseVariants(c) == IF LowerChar(c) = "a" THEN {"a", "A"} ELSE {c}

\* the strings that differ from s only in the case of their letters
RECURSIVE ReCasings(_)
ReCasings(s) ==
  IF s = <<>> THEN {<<>>}
  ELSE {<<d>> \o r : d \in CaseVariants(Head(s)), r \in ReCasings(Tail(s))}

\* what a participant may type into field i (1-based): any short string,
\* or one of the field's accepted alternatives in any casing
Typable(i) ==
  TypedValues \cup UNION {ReCasings(solutions[i][k]) : k \in 1..Len(solutions[i])}

\* the participant edits one field of the open trial
Type(i, v) ==
  /\ pc = "running"
  /\ simulation_mode = "manual"
  /\ i \in 1..Len(value)
  /\ value[i] # v
  /\ value' = [value EXCEPT ![i] = v]
  /\ UNCHANGED <<trial, simulation_mode, pc, display, solutions, color, focus,
                 exception, clicks, calls, trial_data, timers>>

\* mutant of Answer: the value is normalised only when it is going to be
\* compared, the raw field content is kept otherwise
Answer_rawUnlessChecked(t, fieldValue) ==
  IF ~t.check_answers THEN fieldValue
  ELSE IF t.case_sensitivity THEN trim(fieldValue)
  ELSE trim(toLowerCase(fieldValue))

\* ------------------------------------------------------- check(): validate
\* mutant of Answer: the field value is not trimmed
Answer_noTrim(t, fieldValue) ==
  IF t.case_sensitivity THEN fieldValue ELSE toLowerCase(fieldValue)

\* mutant of Answer: the field value is lower-cased whatever case_sensitivity
Answer_alwaysLower(t, fieldValue) == trim(toLowerCase(fieldValue))

\* the answer pushed for one field: trimmed, lower-cased first when the
\* trial is not case sensitive
Answer(t, fieldValue) ==
  IF t.case_sensitivity THEN trim(fieldValue) ELSE trim(toLowerCase(fieldValue))

\* mutant of CheckLoop: the loop is left at the first wrong answer, the
\* fields after it are neither read nor flagged
RECURSIVE CheckLoop_stopAtFirst(_, _, _, _, _)
CheckLoop_stopAtFirst(t, sols, fieldValues, i, st) ==
  IF i > Len(sols) THEN st
  ELSE
    LET answers == Append(st.answers, Answer(t, fieldValues[i]))
        wrong   == t.check_answers /\ ~includes(sols[i], answers[i])
        empty   == ~t.allow_blanks /\ answers[i] = <<>>
        st1 == [answers         |-> answers,
                answers_correct |-> IF wrong THEN FALSE ELSE st.answers_correct,
                answers_filled  |-> IF empty THEN FALSE ELSE st.answers_filled,
                color |-> IF t.check_answers
                          THEN [st.color EXCEPT ![i] = IF wrong THEN "red" ELSE "black"]
                          ELSE st.color]
    IN  IF wrong THEN st1 ELSE CheckLoop_stopAtFirst(t, sols, fieldValues, i + 1, st1)

\* mutant of CheckLoop: the comparison with the solutions and the colouring
\* are not guarded by check_answers
RECURSIVE CheckLoop_alwaysFlags(_, _, _, _, _)
CheckLoop_alwaysFlags(t, sols, fieldValues, i, st) ==
  IF i > Len(sols) THEN st
  ELSE
    LET answers == Append(st.answers, Answer(t, fieldValues[i]))
        wrong   == ~includes(sols[i], answers[i])
        empty   == ~t.allow_blanks /\ answers[i] = <<>>
        st1 == [answers         |-> answers,
                answers_correct |-> IF wrong THEN FALSE ELSE st.answers_correct,
                answers_filled  |-> IF empty THEN FALSE ELSE st.answers_filled,
                color |-> [st.color EXCEPT ![i] = IF wrong THEN "red" ELSE "black"]]
    IN  CheckLoop_alwaysFlags(t, sols, fieldValues, i + 1, st1)

\* mutant of CheckLoop: an empty answer is not compared with the solutions
RECURSIVE CheckLoop_blankOk(_, _, _, _, _)
CheckLoop_blankOk(t, sols, fieldValues, i, st) ==
  IF i > Len(sols) THEN st
  ELSE
    LET answers == Append(st.answers, Answer(t, fieldValues[i]))
        wrong   == /\ t.check_answers
                   /\ answers[i] # <<>>
                   /\ ~includes(sols[i], answers[i])
        empty   == ~t.allow_blanks /\ answers[i] = <<>>
        st1 == [answers         |-> answers,
                answers_correct |-> IF wrong THEN FALSE ELSE st.answers_correct,
                answers_filled  |-> IF empty THEN FALSE ELSE st.answers_filled,
                color |-> IF t.check_answers
                          THEN [st.color EXCEPT ![i] = IF wrong THEN "red" ELSE "black"]
                          ELSE st.color]
    IN  CheckLoop_blankOk(t, sols, fieldValues, i + 1, st1)

\* the for loop of check(), from index i (1-based) on; st carries the
\* loop's variables and the fields' colours
RECURSIVE CheckLoop(_, _, _, _, _)
CheckLoop(t, sols, fieldValues, i, st) ==
  IF i > Len(sols) THEN st
  ELSE
    LET answers == Append(st.answers, Answer(t, fieldValues[i]))
        wrong   == t.check_answers /\ ~includes(sols[i], answers[i])
        empty   == ~t.allow_blanks /\ answers[i] = <<>>
        st1 == [answers         |-> answers,
                answers_correct |-> IF wrong THEN FALSE ELSE st.answers_correct,
                answers_filled  |-> IF empty THEN FALSE ELSE st.answers_filled,
                color |-> IF t.check_answers
                          THEN [st.color EXCEPT ![i] = IF wrong THEN "red" ELSE "black"]
                          ELSE st.color]
    IN  CheckLoop(t, sols, fieldValues, i + 1, st1)

\* mutant of Check: answers_filled starts out false, so that no loop pass
\* ever makes the answers count as filled
Check_startUnfilled(t, sols, fieldValues, fieldColors) ==
  CheckLoop(t, sols, fieldValues, 1,
            [answers |-> <<>>, answers_correct |-> TRUE, answers_filled |-> FALSE,
             color |-> fieldColors])

\* mutant of Check: answers_correct survives from the previous attempt, it
\* starts false while a field is still flagged red
Check_sticky(t, sols, fieldValues, fieldColors) ==
  CheckLoop(t, sols, fieldValues, 1,
            [answers |-> <<>>,
             answers_correct |-> \A i \in 1..Len(fieldColors) : fieldColors[i] # "red",
             answers_filled |-> TRUE,
             color |-> fieldColors])

\* check() up to its final if: the loop run over the captured solutions
Check(t, sols, fieldValues, fieldColors) ==
  CheckLoop(t, sols, fieldValues, 1,
            [answers |-> <<>>, answers_correct |-> TRUE, answers_filled |-> TRUE,
             color |-> fieldColors])

\* mutant of MistakeBranch: the two gates joined by && instead of ||
MistakeBranch_and(t, st) ==
  (t.check_answers /\ ~st.answers_correct) /\ (~t.allow_blanks /\ ~st.answers_filled)

\* the condition of check()'s final if: the mistake branch is taken
MistakeBranch(t, st) ==
  (t.check_answers /\ ~st.answers_correct) \/ (~t.allow_blanks /\ ~st.answers_filled)

\* mutant of FinishTrial: the payload is recorded but the trial is not
\* ended and its surface is left in place
FinishTrial_noTeardown(data) ==
  /\ trial_data' = Append(trial_data, data)
  /\ calls' = Append(calls, "finishTrial")
  /\ pc' = pc
  /\ display' = display

\* jsPsych.finishTrial as the host implements it: the payload is recorded,
\* the trial ends and the display is cleared
FinishTrial(data) ==
  /\ trial_data' = Append(trial_data, data)
  /\ calls' = Append(calls, "finishTrial")
  /\ pc' = "finished"
  /\ display' = <<>>

\* mutant of CheckHandler: the flag allow_blanks is ignored, the answers are
\* always checked for completion
CheckHandler_neverBlanks ==
  LET t  == [trial EXCEPT !.allow_blanks = FALSE]
      st == Check(t, solutions, value, color)
  IN  /\ color' = st.color
      /\ IF MistakeBranch(t, st)
         THEN /\ calls' = Append(calls, "mistake_fn")
              /\ UNCHANGED <<pc, display, trial_data>>
         ELSE FinishTrial([response |-> st.answers])

\* mutant of CheckHandler: the flag check_answers is ignored, the answers
\* are always compared with the solutions
CheckHandler_alwaysChecks ==
  LET t  == [trial EXCEPT !.check_answers = TRUE]
      st == Check(t, solutions, value, color)
  IN  /\ color' = st.color
      /\ IF MistakeBranch(t, st)
         THEN /\ calls' = Append(calls, "mistake_fn")
              /\ UNCHANGED <<pc, display, trial_data>>
         ELSE FinishTrial([response |-> st.answers])

\* the listener check() as a whole: validate, then either call the
\* mistake function or finish the trial with the answers
CheckHandler ==
  LET st == Check(trial, solutions, value, color)
  IN  /\ color' = st.color
      /\ IF MistakeBranch(trial, st)
         THEN /\ calls' = Append(calls, "mistake_fn")
              /\ UNCHANGED <<pc, display, trial_data>>
         ELSE FinishTrial([response |-> st.answers])

\* mutant of Click: the listener writes the normalised answers back into
\* the fields
Click_normalisesFields ==
  /\ pc = "running"
  /\ simulation_mode = "manual"
  /\ HasButton(display)
  /\ clicks < MaxSubmits
  /\ clicks' = clicks + 1
  /\ CheckHandler
  /\ value' = [i \in 1..Len(value) |-> Answer(trial, value[i])]
  /\ UNCHANGED <<trial, simulation_mode, solutions, focus, exception, timers>>

\* the participant clicks #finish_cloze_button: the listener check() runs
Click ==
  /\ pc = "running"
  /\ simulation_mode = "manual"
  /\ HasButton(display)
  /\ clicks < MaxSubmits
  /\ clicks' = clicks + 1
  /\ CheckHandler
  /\ UNCHANGED <<trial, simulation_mode, solutions, value, focus, exception, timers>>

\* ------------------------------------------------------------- simulation
\* jsPsych.randomization.randomWords({exactly: 1}): a list of one word
randomWords == {<<w>> : w \in RandomWordList}

\* jsPsych.randomization.sampleExGaussian(750, 200, 0.01, true): a
\* positive latency
sampleExGaussian == 1..MaxLatency

\* the response create_simulation_data may push for one word list: a random
\* word when the list includes "", otherwise any element of the list
SimulatedWords(wordList) ==
  IF includes(wordList, <<>>)
  THEN {word[1] : word \in randomWords}
  ELSE {wordList[k] : k \in 1..Len(wordList)}

\* mutant of SimulatedResponses: nothing is pushed for a word list that
\* includes ""
RECURSIVE SimulatedResponses_skip(_, _)
SimulatedResponses_skip(wordLists, i) ==
  IF i = 0 THEN {<<>>}
  ELSE IF includes(wordLists[i], <<>>)
       THEN SimulatedResponses_skip(wordLists, i - 1)
       ELSE {Append(responses, w) :
               responses \in SimulatedResponses_skip(wordLists, i - 1),
               w \in SimulatedWords(wordLists[i])}

\* the loop of create_simulation_data: every list of responses it can build
RECURSIVE SimulatedResponses(_, _)
SimulatedResponses(wordLists, i) ==
  IF i = 0 THEN {<<>>}
  ELSE {Append(responses, w) : responses \in SimulatedResponses(wordLists, i - 1),
                               w \in SimulatedWords(wordLists[i])}

\* jsPsych.pluginAPI.mergeSimulationData with simulation_options that carry
\* no data: the default data are returned
mergeSimulationData(default_data) == default_data

\* every value create_simulation_data(trial, simulation_options) can return
create_simulation_data(t) ==
  LET sols == getSolutions(t.text, t.case_sensitivity)
  IN  {mergeSimulationData([response |-> responses]) :
         responses \in SimulatedResponses(sols, Len(sols))}

\* simulate(trial, "data-only", ...): load_callback, then simulate_data_only
SimulateDataOnly ==
  /\ pc = "start"
  /\ simulation_mode' = "data-only"
  /\ \E data \in create_simulation_data(trial) :
       /\ trial_data' = Append(trial_data, data)
       /\ calls' = calls \o <<"load_callback", "finishTrial">>
       /\ pc' = "finished"
       /\ display' = <<>>
  /\ UNCHANGED <<trial, solutions, value, color, focus, exception, clicks, timers>>

\* the timers simulate_visual sets: one fillTextInput per response at the
\* running sum rt of the sampled latencies, then clickTarget at the final rt
RECURSIVE FillTimers(_, _, _)
FillTimers(response, lat, i) ==
  IF i = 0 THEN <<>>
  ELSE Append(FillTimers(response, lat, i - 1),
              [at |-> lat[i], kind |-> "fill", input |-> i - 1, text |-> response[i]])

\* rt after k additions: the sum of the first k+1 samples
RECURSIVE RtAfter(_, _)
RtAfter(samples, k) ==
  IF k = 0 THEN samples[1] ELSE RtAfter(samples, k - 1) + samples[k + 1]

\* simulate(trial, "visual", ...): simulate_visual
SimulateVisual ==
  /\ pc = "start"
  /\ simulation_mode' = "visual"
  /\ pc' = "running"
  /\ TrialBody
  /\ \E data \in create_simulation_data(trial) :
       IF exception' # "none"
       THEN \* trial() threw: nothing after it in simulate_visual runs
            /\ calls' = Append(calls, "trial")
            /\ timers' = <<>>
       ELSE \E samples \in [1..(Len(data.response) + 1) -> sampleExGaussian] :
              LET n  == Len(data.response)
                  rt == [k \in 1..(n + 1) |-> RtAfter(samples, k - 1)]
              IN  /\ calls' = calls \o <<"trial", "load_callback">>
                  /\ timers' = Append(FillTimers(data.response, rt, n),
                                      [at |-> rt[n + 1], kind |-> "click",
                                       input |-> -1, text |-> <<>>])
  /\ UNCHANGED <<trial, clicks, trial_data>>

\* index of the timer that fires next: the smallest time, the one set
\* first among equal times
NextTimer ==
  CHOOSE k \in 1..Len(timers) :
    \A j \in 1..Len(timers) :
      timers[k].at < timers[j].at \/ (timers[k].at = timers[j].at /\ k <= j)

RemoveAt(seq, k) == SubSeq(seq, 1, k - 1) \o SubSeq(seq, k + 1, Len(seq))

\* a fillTextInput timer fires: the input's value is set
FireFill ==
  /\ timers # <<>>
  /\ LET k == NextTimer
     IN  /\ timers[k].kind = "fill"
         /\ timers' = RemoveAt(timers, k)
         /\ IF timers[k].input + 1 \in 1..Len(value)
            THEN value' = [value EXCEPT ![timers[k].input + 1] = timers[k].text]
            ELSE value' = value
  /\ UNCHANGED <<trial, simulation_mode, pc, display, solutions, color, focus,
                 exception, clicks, calls, trial_data>>

\* the clickTarget timer fires: a click is dispatched to the button and
\* the listener check() runs
FireClick ==
  /\ timers # <<>>
  /\ LET k == NextTimer
     IN  /\ timers[k].kind = "click"
         /\ timers' = RemoveAt(timers, k)
  /\ clicks' = clicks + 1
  /\ CheckHandler
  /\ UNCHANGED <<trial, simulation_mode, solutions, value, focus, exception>>

\* the participant edits some field
TypeAny == \E i \in 1..Len(value) : \E v \in Typable(i) : Type(i, v)

Next ==
  \/ Trial
  \/ TypeAny
  \/ Click
  \/ SimulateDataOnly
  \/ SimulateVisual
  \/ FireFill
  \/ FireClick

Spec == Init /\ [][Next]_vars

\* =================================================================== claims
\* vocabulary of the claims

\* the normalised value of a field: trimmed, and case-folded when the trial
\* is not case sensitive
Normalised(t, v) == IF t.case_sensitivity THEN trim(v) ELSE toLowerCase(trim(v))

\* the AcceptedAnswerSet of blank i (1-based) as a set
AcceptedAnswerSet(t, i) ==
  LET sols == getSolutions(t.text, t.case_sensitivity)
  IN  {sols[i][k] : k \in 1..Len(sols[i])}

MarkerCount(text) == Cardinality({i \in 1..Len(text) : text[i] = "%"})

\* blank segments of a template: every second marker closes one, and an
\* unmatched last marker opens one more
NumBlanks(text) == (MarkerCount(text) + 1) \div 2

\* the correctness gate fails for the current field values
CorrectnessFails(t, vals) ==
  \E i \in 1..Len(vals) : Normalised(t, vals[i]) \notin AcceptedAnswerSet(t, i)

\* the completeness gate fails for the current field values
CompletenessFails(t, vals) ==
  \E i \in 1..Len(vals) : Normalised(t, vals[i]) = <<>>

\* a step in which the finish button's click listener runs
SubmitStep == clicks' = clicks + 1

MistakeCalls(log) == Count(log, "mistake_fn")
FinishCalls(log) == Count(log, "finishTrial")

\* C1: every submit of an open trial either invokes the mistake callback once
\* and leaves the trial open, or calls finishTrial without invoking the
\* mistake callback; the mistake outcome occurs exactly when check_answers is
\* set and some normalised answer is not accepted, or allow_blanks is unset
\* and some normalised answer is empty.
C1_SubmitOutcome ==
  [][SubmitStep =>
       /\ pc = "running"
       /\ IF \/ trial.check_answers /\ CorrectnessFails(trial, value)
             \/ ~trial.allow_blanks /\ CompletenessFails(trial, value)
          THEN /\ MistakeCalls(calls') = MistakeCalls(calls) + 1
               /\ FinishCalls(calls') = FinishCalls(calls)
               /\ trial_data' = trial_data
               /\ pc' = "running"
          ELSE /\ FinishCalls(calls') = FinishCalls(calls) + 1
               /\ MistakeCalls(calls') = MistakeCalls(calls)
               /\ Len(trial_data') = Len(trial_data) + 1
               /\ pc' = "finished"]_vars

\* C1 witness: one trial saw both outcomes, a failed submit and a passing one
C1_Witness ==
  /\ simulation_mode = "manual"
  /\ pc = "finished"
  /\ MistakeCalls(calls) = 1
  /\ FinishCalls(calls) = 1
  /\ trial.check_answers
  /\ ~trial.allow_blanks

\* C2: when a manual trial finishes, the delivered response has one entry per
\* blank segment and entry i is the normalised value that input i holds at
\* the passing submit, whatever was entered in earlier, failed attempts.
C2_ManualPayload ==
  [][(simulation_mode = "manual" /\ pc = "running" /\ pc' = "finished") =>
       LET response == trial_data'[Len(trial_data')].response
       IN  /\ Len(trial_data') = Len(trial_data) + 1
           /\ Len(response) = NumBlanks(trial.text)
           /\ Len(response) = Len(value)
           /\ \A i \in 1..Len(response) : response[i] = Normalised(trial, value[i])]_vars

\* C2 witness: a two-blank manual trial finished on its second submit with
\* two different entries, one of them changed by the normalisation
C2_Witness ==
  /\ simulation_mode = "manual"
  /\ pc = "finished"
  /\ MistakeCalls(calls) = 1
  /\ Len(value) = 2
  /\ trial_data[1].response = <<<<"a">>, <<>>>>
  /\ value = <<<<"A">>, <<" ">>>>

\* C3: with check_answers and allow_blanks set, a submit finishes the trial
\* exactly when every blank's normalised answer equals one of the blank's
\* slash-separated alternatives; otherwise the mistake callback is invoked.
C3_AlternativesGate ==
  [][(SubmitStep /\ trial.check_answers /\ trial.allow_blanks) =>
       LET sols == getSolutions(trial.text, trial.case_sensitivity)
           allMatch  == \A i \in 1..Len(value) :
                          \E k \in 1..Len(sols[i]) :
                            sols[i][k] = Normalised(trial, value[i])
       IN  /\ (pc' = "finished") <=> allMatch
           /\ (MistakeCalls(calls') = MistakeCalls(calls) + 1) <=> ~allMatch]_vars

\* C3 witness: a blank with two different alternatives was answered wrongly
\* and then with its second alternative
C3_Witness ==
  /\ simulation_mode = "manual"
  /\ trial.check_answers /\ trial.allow_blanks /\ trial.case_sensitivity
  /\ trial.text = <<"%", "/", "A", "%">>
  /\ pc = "finished"
  /\ MistakeCalls(calls) = 1
  /\ trial_data[1].response = <<<<"A">>>>

\* C4: with allow_blanks and check_answers both unset, a submit with some
\* entry that is empty after trimming invokes the mistake callback and leaves
\* the trial open, and a submit with no such entry finishes the trial.
C4_CompletenessGate ==
  [][(SubmitStep /\ ~trial.allow_blanks /\ ~trial.check_answers) =>
       IF \E i \in 1..Len(value) : trim(value[i]) = <<>>
       THEN /\ MistakeCalls(calls') = MistakeCalls(calls) + 1
            /\ pc' = "running"
            /\ trial_data' = trial_data
       ELSE /\ pc' = "finished"
            /\ MistakeCalls(calls') = MistakeCalls(calls)]_vars

\* C4 witness: a submit with a field holding only white space failed, the
\* next one with all fields filled finished the trial
C4_Witness ==
  /\ simulation_mode = "manual"
  /\ ~trial.allow_blanks /\ ~trial.check_answers
  /\ Len(value) = 2
  /\ pc = "finished"
  /\ MistakeCalls(calls) = 1
  /\ \A i \in 1..2 : trial_data[1].response[i] # <<>>

\* C5: with check_answers unset and allow_blanks set the mistake callback is
\* never invoked and the first submit finishes the trial, whatever the
\* template and the field values.
C5_NoGate ==
  (~trial.check_answers /\ trial.allow_blanks) =>
    /\ MistakeCalls(calls) = 0
    /\ clicks >= 1 => (pc = "finished" /\ clicks = 1 /\ FinishCalls(calls) = 1)

\* C5 witness: such a trial finished with an empty field although the blank
\* has a fixed solution
C5_Witness ==
  /\ ~trial.check_answers /\ trial.allow_blanks
  /\ simulation_mode = "manual"
  /\ pc = "finished"
  /\ clicks = 1
  /\ Len(value) = 1
  /\ AcceptedAnswerSet(trial, 1) = {<<"A">>}
  /\ trial_data[1].response = <<<<>>>>

\* the enabled gates pass for the field values vals: a function of the
\* trial's parameters and the values alone
GatesPass(t, vals) ==
  /\ t.check_answers => ~CorrectnessFails(t, vals)
  /\ ~t.allow_blanks => ~CompletenessFails(t, vals)

\* C6: a failed submit leaves the trial open with its surface, so that it
\* accepts another submit, and a submit finishes the trial exactly when the
\* current field values pass the enabled gates, whatever happened in
\* earlier attempts.
C6_RetryUntilPass ==
  [][SubmitStep =>
       IF GatesPass(trial, value)
       THEN pc' = "finished"
       ELSE /\ pc' = "running"
            /\ display' = display /\ HasButton(display')
            /\ value' = value]_vars

\* C6 witness: the second submit finished a trial with answer checking
\* whose first submit had failed
C6_Witness ==
  /\ simulation_mode = "manual"
  /\ trial.check_answers
  /\ clicks = 2
  /\ MistakeCalls(calls) = 1
  /\ pc = "finished"

\* C7: with case_sensitivity unset and check_answers set, a field that holds
\* any re-casing of any accepted alternative of its blank passes the
\* correctness gate (it is flagged black, not red).
C7_ReCasingAccepted ==
  [][(SubmitStep /\ ~trial.case_sensitivity /\ trial.check_answers) =>
       \A i \in 1..Len(value) :
         (\E a \in AcceptedAnswerSet(trial, i) : value[i] \in ReCasings(a))
           => color'[i] = "black"]_vars

\* C8: with check_answers set, an answer that is empty after trimming passes
\* the correctness gate exactly when "" is in the blank's AcceptedAnswerSet;
\* when it is not, the field is flagged and the mistake callback is invoked,
\* also when allow_blanks is set.
C8_EmptyAnswer ==
  [][(SubmitStep /\ trial.check_answers) =>
       \A i \in 1..Len(value) :
         trim(value[i]) = <<>> =>
           IF <<>> \in AcceptedAnswerSet(trial, i)
           THEN color'[i] = "black"
           ELSE /\ color'[i] = "red"
                /\ MistakeCalls(calls') = MistakeCalls(calls) + 1
                /\ pc' = "running"]_vars

\* C8 witness: with allow_blanks set, two empty fields were submitted; the
\* one without a fixed solution passed, the one with a fixed solution failed
C8_Witness ==
  /\ trial.check_answers /\ trial.allow_blanks
  /\ simulation_mode = "manual"
  /\ pc = "running"
  /\ MistakeCalls(calls) = 1
  /\ Len(value) = 2
  /\ \A i \in 1..2 : trim(value[i]) = <<>>
  /\ color = <<"black", "red">>

\* C9: a data-only simulation calls finishTrial exactly once, with a response
\* of one entry per blank, renders no field, evaluates no gate and never
\* invokes the mistake callback, for every template and flag combination.
C9_DataOnly ==
  simulation_mode = "data-only" =>
    /\ pc = "finished"
    /\ FinishCalls(calls) = 1
    /\ Len(trial_data) = 1
    /\ Len(trial_data[1].response) = NumBlanks(trial.text)
    /\ Count(calls, "trial") = 0
    /\ display = <<>> /\ value = <<>> /\ color = <<>>
    /\ clicks = 0
    /\ MistakeCalls(calls) = 0

\* C9 witness: a data-only simulation of a two-blank trial finished with a
\* response that the trial's enabled gates would have rejected
C9_Witness ==
  /\ simulation_mode = "data-only"
  /\ pc = "finished"
  /\ trial.check_answers /\ ~trial.allow_blanks
  /\ Len(trial_data[1].response) = 2
  /\ ~GatesPass(trial, trial_data[1].response)

\* C10: the simulated answer for a blank is a random filler word only when
\* the blank's AcceptedAnswerSet is exactly [""]; for every other blank it is
\* a member of the blank's AcceptedAnswerSet.
C10_SimulatedAnswer ==
  simulation_mode = "data-only" =>
    LET sols == getSolutions(trial.text, trial.case_sensitivity)
        response  == trial_data[1].response
    IN  /\ Len(response) = Len(sols)
        /\ \A i \in 1..Len(response) :
             AcceptedAnswerSet(trial, i) # {<<>>}
               => response[i] \in AcceptedAnswerSet(trial, i)

\* C11: in a visual simulation the simulated submit passes the validation for
\* every template and flag combination: the mistake callback is never invoked
\* and the trial has finished once all the scheduled events have fired
\* (stated for the trials whose surface was rendered without an error).
C11_VisualPasses ==
  (simulation_mode = "visual" /\ exception = "none") =>
    /\ MistakeCalls(calls) = 0
    /\ timers = <<>> => pc = "finished"

\* the timers t are n fills, for the inputs 0..n-1 in this order, at strictly
\* increasing times, followed by one click that is not earlier than any fill
WellOrderedTimers(t, n) ==
  /\ Len(t) = n + 1
  /\ \A k \in 1..n : t[k].kind = "fill" /\ t[k].input = k - 1
  /\ \A k \in 1..(n - 1) : t[k].at < t[k + 1].at
  /\ t[n + 1].kind = "click"
  /\ \A k \in 1..n : t[k].at <= t[n + 1].at

\* C12: a visual simulation schedules one field fill per blank, in field
\* order and at strictly increasing times, and one click of the button at a
\* time not before the last fill; the click fires last, when every field
\* holds its simulated value.
C12_VisualSchedule ==
  [][/\ (simulation_mode = "none" /\ simulation_mode' = "visual") =>
          WellOrderedTimers(timers', NumBlanks(trial.text))
     /\ (simulation_mode = "visual" /\ Len(timers') < Len(timers)) =>
          LET first == timers[1]
          IN  /\ timers' = Tail(timers)
              /\ first.kind = "fill" =>
                   value' = [value EXCEPT ![first.input + 1] = first.text]
              /\ first.kind = "click" => (SubmitStep /\ timers' = <<>>)
     /\ (simulation_mode = "visual" /\ SubmitStep) => Len(timers) = 1]_vars

\* ------------------------------------------------ rendering and parsing only
\* templates one character longer than those of Spec
LongTemplates == StringsUpTo(TextChars, MaxTextLen + 1)

\* as Init, with the longer templates and any button text; check_answers and
\* allow_blanks, which trial() reads only in check(), have their defaults
InitRender ==
  /\ trial \in [text : LongTemplates, button_text : ButtonTexts,
                check_answers : {FALSE}, allow_blanks : {TRUE},
                case_sensitivity : BOOLEAN, autofocus : BOOLEAN]
  /\ simulation_mode = "none"
  /\ pc = "start"
  /\ display = <<>>
  /\ solutions = <<>>
  /\ value = <<>>
  /\ color = <<>>
  /\ focus = -1
  /\ exception = "none"
  /\ clicks = 0
  /\ calls = <<>>
  /\ trial_data = <<>>
  /\ timers = <<>>

\* the trial is rendered, nothing is typed or clicked
NextRender == Trial

SpecRender == InitRender /\ [][NextRender]_vars

\* position of the k-th marker of a template
MarkerPos(text, k) ==
  CHOOSE p \in 1..Len(text) :
    text[p] = "%" /\ Cardinality({q \in 1..p : text[q] = "%"}) = k

\* segment j (0-based) of a template: the text before the first marker for
\* j = 0, between marker j and marker j+1 otherwise, up to the end of the
\* template after the last marker
Segment(text, j) ==
  LET from == IF j = 0 THEN 1 ELSE MarkerPos(text, j) + 1
      to   == IF j = MarkerCount(text) THEN Len(text) ELSE MarkerPos(text, j + 1) - 1
  IN  SubSeq(text, from, to)

\* the strings of a list joined by a separator character
RECURSIVE Join(_, _)
Join(list, sep) ==
  IF Len(list) = 0 THEN <<>>
  ELSE IF Len(list) = 1 THEN list[1]
  ELSE list[1] \o <<sep>> \o Join(Tail(list), sep)

\* C13: a template with an even number k of markers yields exactly k/2
\* blanks, in left-to-right order (blank i is made of the text between the
\* markers 2i-1 and 2i, trimmed and case-folded), each with at least one
\* accepted alternative.
C13_EvenMarkers ==
  (pc = "running" /\ MarkerCount(trial.text) % 2 = 0) =>
    /\ Len(solutions) = MarkerCount(trial.text) \div 2
    /\ \A i \in 1..Len(solutions) :
         /\ Len(solutions[i]) >= 1
         /\ Join(solutions[i], "/") =
              (IF trial.case_sensitivity
               THEN trim(Segment(trial.text, 2 * i - 1))
               ELSE toLowerCase(trim(Segment(trial.text, 2 * i - 1))))

\* C13 witness: a template with four markers was parsed into two blanks with
\* different alternatives
C13_Witness ==
  /\ pc = "running"
  /\ MarkerCount(trial.text) = 4
  /\ solutions = << <<<<"a">>>>, <<<<>>>> >>

\* C14: the rendered surface is made of the template's segments in order,
\* the literal ones verbatim and the j-th blank replaced by exactly one text
\* input with id j and an empty value, followed by a line break and exactly
\* one button labelled with button_text.
C14_RenderedSurface ==
  (pc = "running" /\ clicks = 0) =>
    LET n == MarkerCount(trial.text)
    IN  /\ Len(display) = n + 3
        /\ \A j \in 0..n :
             IF j % 2 = 0
             THEN display[j + 1] = Node("text", Segment(trial.text, j), -1)
             ELSE /\ display[j + 1] = Node("input", <<>>, (j - 1) \div 2)
                  /\ value[((j - 1) \div 2) + 1] = <<>>
        /\ \A b \in 0..(NumBlanks(trial.text) - 1) :
             Cardinality({p \in 1..Len(display) :
                            display[p].tag = "input" /\ display[p].id = b}) = 1
        /\ Len(value) = NumBlanks(trial.text)
        /\ display[n + 2].tag = "br"
        /\ display[n + 3] = Node("button", trial.button_text, -1)
        /\ Cardinality({p \in 1..Len(display) : display[p].tag = "button"}) = 1

\* C14 witness: a template with a literal and two blanks was rendered with a
\* custom button text
C14_Witness ==
  /\ pc = "running"
  /\ trial.text = <<"A", "%", "%", "%">>
  /\ trial.button_text = "Next"
  /\ InputIds(display) = {0, 1}
  /\ display[1].text = <<"A">>
  /\ display[Len(display)].text = "Next"

\* C15: for a template without markers and every flag combination, the
\* rendered surface has no text input, the mistake callback is never invoked,
\* and every submit finishes the trial with an empty response list.
C15_NoBlanks ==
  MarkerCount(trial.text) = 0 =>
    /\ pc = "running" => (InputIds(display) = {} /\ value = <<>> /\ HasButton(display))
    /\ MistakeCalls(calls) = 0
    /\ clicks >= 1 => (pc = "finished" /\ trial_data = <<[response |-> <<>>]>>)

\* C15 witness: a template without markers, with answer checking on and
\* blanks not allowed, was submitted by a participant and finished
C15_Witness ==
  /\ MarkerCount(trial.text) = 0
  /\ trial.text # <<>>
  /\ trial.check_answers /\ ~trial.allow_blanks
  /\ simulation_mode = "manual"
  /\ clicks = 1
  /\ pc = "finished"
  /\ trial_data = <<[response |-> <<>>]>>

\* C16: with autofocus set, rendering focuses the first input when the
\* template has a blank, and otherwise has no effect: no error is raised and
\* the trial is left rendered with its submit button.
C16_Autofocus ==
  (trial.autofocus /\ pc = "running") =>
    /\ exception = "none"
    /\ HasButton(display)
    /\ focus = (IF NumBlanks(trial.text) >= 1 THEN 0 ELSE -1)

C19_OnePayload ==
  [][/\ FinishCalls(calls') <= 1
     /\ Len(trial_data') = FinishCalls(calls')
     /\ pc' = "finished" => Len(trial_data') = 1
     /\ pc = "finished" =>
          /\ ~SubmitStep
          /\ calls' = calls
          /\ trial_data' = trial_data]_vars

\* C19 witness: a manual trial finished on its first submit, with submits
\* to spare
C19_Witness ==
  /\ simulation_mode = "manual"
  /\ pc = "finished"
  /\ clicks = 1
  /\ clicks < MaxSubmits
  /\ Len(value) >= 1
  /\ FinishCalls(calls) = 1
  /\ Len(trial_data) = 1

\* C21: after every submit with check_answers set, failed or passing, every
\* field is flagged by this attempt alone: field i is red when its normalised
\* answer is not in the blank's AcceptedAnswerSet and black otherwise. All
\* fields are flagged in the step that invokes the mistake callback, so a
\* field that was red and is now correct is black.
C21_FlagsOfThisAttempt ==
  [][(SubmitStep /\ trial.check_answers) =>
       /\ Len(color') = Len(value)
       /\ \A i \in 1..Len(value) :
            color'[i] = (IF Normalised(trial, value[i]) \in AcceptedAnswerSet(trial, i)
                         THEN "black" ELSE "red")]_vars

\* C21 witness: a two-blank trial failed twice; after the second attempt the
\* first field is wrong and the second is right, and the flags say so
C21_Witness ==
  /\ simulation_mode = "manual"
  /\ trial.check_answers
  /\ pc = "running"
  /\ clicks = 2
  /\ MistakeCalls(calls) = 2
  /\ Len(value) = 2
  /\ Normalised(trial, value[1]) \notin AcceptedAnswerSet(trial, 1)
  /\ Normalised(trial, value[2]) \in AcceptedAnswerSet(trial, 2)
  /\ color = <<"red", "black">>

\* C22: a submit never changes a field's value; with check_answers unset it
\* leaves every colour flag as it was, also for fields that fail the
\* completeness gate; a failed submit changes nothing but the colour flags
\* and the call log, which gains one invocation of the mistake callback.
C22_SubmitSideEffects ==
  [][SubmitStep =>
       /\ value' = value
       /\ ~trial.check_answers => color' = color
       /\ pc' = "running" =>
            /\ calls' = Append(calls, "mistake_fn")
            /\ UNCHANGED <<trial, simulation_mode, pc, display, solutions, focus,
                           exception, trial_data>>]_vars

\* C22 witness: with both flags unset a field holding white space failed the
\* completeness gate; the field still holds the white space and is not flagged
C22_Witness ==
  /\ simulation_mode = "manual"
  /\ ~trial.check_answers /\ ~trial.allow_blanks
  /\ pc = "running"
  /\ clicks = 1
  /\ MistakeCalls(calls) = 1
  /\ value = <<<<" ">>>>
  /\ color = <<"">>
  /\ trial_data = <<>>

\* a string without white space at either end
IsTrimmed(s) == s = <<>> \/ (~IsSpace(s[1]) /\ ~IsSpace(s[Len(s)]))

\* a string without upper-case letters
IsLowerCase(s) == \A k \in 1..Len(s) : s[k] = LowerChar(s[k])

\* C23: the response recorded by a passing submit holds the normalised
\* answers, not the raw field contents: every entry is its field's value
\* without the surrounding white space, and in lower case when
\* case_sensitivity is unset, also when check_answers is unset.
C23_NormalisedResponse ==
  [][(SubmitStep /\ pc' = "finished") =>
       LET response == trial_data'[Len(trial_data')].response
       IN  /\ Len(response) = Len(value)
           /\ \A i \in 1..Len(value) :
                /\ IsTrimmed(response[i])
                /\ ~trial.case_sensitivity => IsLowerCase(response[i])
                /\ \E l, r \in 0..Len(value[i]) :
                     /\ l + r <= Len(value[i])
                     /\ \A k \in 1..l : IsSpace(value[i][k])
                     /\ \A k \in (Len(value[i]) - r + 1)..Len(value[i]) : IsSpace(value[i][k])
                     /\ LET core == SubSeq(value[i], l + 1, Len(value[i]) - r)
                        IN  response[i] = (IF trial.case_sensitivity THEN core
                                           ELSE toLowerCase(core))]_vars

\* C23 witness: without answer checking and without case sensitivity a field
\* holding " A" was recorded as "a"
C23_Witness ==
  /\ simulation_mode = "manual"
  /\ ~trial.check_answers /\ ~trial.case_sensitivity
  /\ pc = "finished"
  /\ value = <<<<" ", "A">>>>
  /\ trial_data = <<[response |-> <<<<"a">>>>]>>

\* C24: every alternative of every AcceptedAnswerSet is free of surrounding
\* white space, and with check_answers set a field that holds a member of its
\* blank's AcceptedAnswerSet passes the correctness gate (it is flagged
\* black).
C24_TrimmedAlternatives ==
  [][(SubmitStep /\ trial.check_answers) =>
       \A i \in 1..Len(value) :
         /\ \A a \in AcceptedAnswerSet(trial, i) : IsTrimmed(a)
         /\ value[i] \in AcceptedAnswerSet(trial, i) => color'[i] = "black"]_vars

\* C25: a blank whose content is empty or made of white space only yields
\* exactly the AcceptedAnswerSet [""], with and without case sensitivity.
C25_EmptyBlank ==
  pc = "running" =>
    \A i \in 1..Len(solutions) :
      LET content == Segment(trial.text, 2 * i - 1)
      IN  (\A k \in 1..Len(content) : IsSpace(content[k])) => solutions[i] = <<<<>>>>

\* C25 witness: a template with an empty blank and a blank holding one space
\* was parsed into two lists holding the empty string
C25_Witness ==
  /\ pc = "running"
  /\ trial.text = <<"%", "%", "%", " ", "%">>
  /\ solutions = << <<<<>>>>, <<<<>>>> >>

\* ------------------------------------------- a mistake function that throws
\* mutant of CheckHandlerThrows: the listener disables the button while it
\* runs and enables it again after the callback; when the callback throws the
\* button stays out of reach
CheckHandlerThrows_disablesButton ==
  LET st == Check(trial, solutions, value, color)
  IN  /\ color' = st.color
      /\ IF MistakeBranch(trial, st)
         THEN /\ calls' = Append(calls, "mistake_fn")
              /\ exception' = "MistakeError"
              /\ display' = SelectSeq(display, LAMBDA n : n.tag # "button")
              /\ UNCHANGED <<pc, trial_data>>
         ELSE /\ FinishTrial([response |-> st.answers])
              /\ exception' = exception

\* the listener check() with a trial.mistake_fn that throws: the call is the
\* last statement of its branch, the exception leaves the listener
CheckHandlerThrows ==
  LET st == Check(trial, solutions, value, color)
  IN  /\ color' = st.color
      /\ IF MistakeBranch(trial, st)
         THEN /\ calls' = Append(calls, "mistake_fn")
              /\ exception' = "MistakeError"
              /\ UNCHANGED <<pc, display, trial_data>>
         ELSE /\ FinishTrial([response |-> st.answers])
              /\ exception' = exception

\* the participant clicks the button of a trial whose mistake_fn throws
ClickThrows ==
  /\ pc = "running"
  /\ simulation_mode = "manual"
  /\ HasButton(display)
  /\ clicks < MaxSubmits
  /\ clicks' = clicks + 1
  /\ CheckHandlerThrows
  /\ UNCHANGED <<trial, simulation_mode, solutions, value, focus, timers>>

NextThrows == Trial \/ TypeAny \/ ClickThrows

SpecMistakeThrows == Init /\ [][NextThrows]_vars

\* C26: when the mistake callback throws during a failed submit, the
\* exception leaves the submit handler, finishTrial is not called and the
\* trial is left as a failed submit leaves it: open, with its surface, its
\* button and its field values; a later submit whose values pass the enabled
\* gates finishes it.
C26_MistakeThrows ==
  [][SubmitStep =>
       IF GatesPass(trial, value)
       THEN /\ pc' = "finished"
            /\ FinishCalls(calls') = FinishCalls(calls) + 1
            /\ exception' = exception
       ELSE /\ exception' = "MistakeError"
            /\ calls' = Append(calls, "mistake_fn")
            /\ HasButton(display')
            /\ UNCHANGED <<trial, pc, display, solutions, value, trial_data>>]_vars

\* C26 witness: the mistake callback threw on the first submit and the second
\* submit finished the trial
C26_Witness ==
  /\ exception = "MistakeError"
  /\ clicks = 2
  /\ calls = <<"trial", "mistake_fn", "finishTrial">>
  /\ pc = "finished"
  /\ Len(value) >= 1
  /\ Len(trial_data) = 1

\* the value v passes the enabled gates as the content of field i (1-based)
FieldPasses(t, i, v) ==
  /\ t.check_answers => Normalised(t, v) \in AcceptedAnswerSet(t, i)
  /\ ~t.allow_blanks => Normalised(t, v) # <<>>

\* C27: every rendered trial is finishable: for every template and every
\* combination of check_answers, allow_blanks and case_sensitivity each field
\* has a value with which it passes the enabled gates, so that some
\* assignment of field values finishes the trial.
C27_Finishable ==
  (pc = "running" /\ simulation_mode = "manual") =>
    \A i \in 1..Len(value) : \E v \in Typable(i) : FieldPasses(trial, i, v)

\* C28: for every template, also with an odd number of markers, there are as
\* many rendered inputs as AcceptedAnswerSets, with ids 0..n-1; with 2m+1
\* markers the text after the last marker is not rendered as a literal: the
\* surface ends (before the line break and the button) with input m, whose
\* alternatives are that text, trimmed and case-folded.
C28_InputsMatchSolutions ==
  pc = "running" =>
    LET n == MarkerCount(trial.text)
    IN  /\ Cardinality({p \in 1..Len(display) : display[p].tag = "input"}) = Len(solutions)
        /\ InputIds(display) = 0..(Len(solutions) - 1)
        /\ Len(value) = Len(solutions)
        /\ n % 2 = 1 =>
             LET m == (n - 1) \div 2
             IN  /\ Len(solutions) = m + 1
                 /\ Len(display) = n + 3
                 /\ display[n + 1] = Node("input", <<>>, m)
                 /\ Cardinality({p \in 1..Len(display) : display[p].tag = "text"}) = m + 1
                 /\ Join(solutions[m + 1], "/") =
                      (IF trial.case_sensitivity
                       THEN trim(Segment(trial.text, n))
                       ELSE toLowerCase(trim(Segment(trial.text, n))))

\* C28 witness: a template with three markers and text after the last one
\* was rendered with two inputs, the second one for the trailing text
C28_Witness ==
  /\ pc = "running"
  /\ trial.text = <<"%", "%", "A", "%", "A">>
  /\ trial.case_sensitivity
  /\ InputIds(display) = {0, 1}
  /\ solutions = << <<<<>>>>, <<<<"A">>>> >>
  /\ display[3] = Node("text", <<"A">>, -1)
  /\ display[4] = Node("input", <<>>, 1)

\* C29: a simulated trial invokes the load callback exactly once and before
\* the trial finishes: a data-only simulation calls it and then finishTrial;
\* a visual simulation renders the surface, calls it, and only then are the
\* fills and the click scheduled and run.
C29_LoadCallback ==
  /\ simulation_mode \in {"data-only", "visual"} => Count(calls, "load_callback") = 1
  /\ simulation_mode = "data-only" => calls = <<"load_callback", "finishTrial">>
  /\ simulation_mode = "visual" =>
       /\ Len(calls) >= 2
       /\ calls[1] = "trial"
       /\ calls[2] = "load_callback"

====
